---- MODULE Spec2Model ----
(***************************************************************************)
(* Tour discovery pipeline of 1210_tour_map.                               *)
(*                                                                         *)
(*  - Spec: the infinite-scroll pagination of TourMapLayout                *)
(*    (components/tour-map-layout.tsx) together with the server action     *)
(*    loadMoreTours (actions/tour-actions.ts) that serves its page         *)
(*    fetches.                                                             *)
(*  - SpecApi: one call of callApi (lib/api/tour-api.ts): fetchWithRetry   *)
(*    followed by parseApiResponse.                                        *)
(*  - SpecLoad: one call of loadMoreTours (actions/tour-actions.ts) made   *)
(*    by a mounted TourMapLayout, down to its fetch().                     *)
(*  - SpecGeo: convertKATECToWGS84 (lib/types/tour.ts) applied to          *)
(*    coordinate fields.                                                   *)
(*  - SpecSort: sortTours (lib/utils/tour-sort.ts) applied to arrays of    *)
(*    tours.                                                               *)
(*  - SpecMap: the selection and hover state of TourMapLayout and the      *)
(*    markers and info windows of NaverMap (components/naver-map.tsx),     *)
(*    over the pagination of Spec.                                         *)
(*  - SpecView: the same selection, hover, markers and info windows over   *)
(*    one list of tours that stays as it is.                               *)
(*  - SpecStats: one call of getStatsSummary (lib/api/stats-api.ts) with   *)
(*    the requests getRegionStats and getTypeStats fan out.                *)
(***************************************************************************)
EXTENDS Integers, Sequences, FiniteSets, TLC

\* ------------------------------------------------------------------------
\* Bounds of the model
\* ------------------------------------------------------------------------

\* content ids handed out by the upstream service: 1..MaxId
MaxId == 2
\* page size. The source asks for numOfRows = 20 everywhere; the model
\* scales the page down so that a full page is reachable.
NumOfRows == 1
\* largest totalCount the upstream reports
MaxTotal == 3
\* loadMoreTours calls issued in one behaviour
MaxCalls == 2
\* content ids of the arrays handed to sortTours: 1..MaxSortId
MaxSortId == 4
\* longest array handed to sortTours
MaxSortLen == 3
\* sortTours calls chained on one array
MaxSortCalls == 2
\* loadMoreTours calls issued while the map is followed
MaxMapCalls == 1

\* ------------------------------------------------------------------------
\* Program constants
\* ------------------------------------------------------------------------
MAX_RETRIES == 3

RETRY_DELAYS == <<1000, 2000, 4000>>

\* JavaScript's undefined, for a string field and for a number field
Undefined == "undefined"

NoStatus == 0

ContentIds == 1..MaxId

\* ------------------------------------------------------------------------
\* Upstream data
\* ------------------------------------------------------------------------

\* TourItem.modifiedtime as its positional fields YYYY MM DD HH mm ss:
\* 20240301000000, 20240101000000, 20231231235959, 20240101000000, ...
ModifiedTimes ==
    << <<2024, 3, 1, 0, 0, 0>>, <<2024, 1, 1, 0, 0, 0>>,
       <<2023, 12, 31, 23, 59, 59>>, <<2024, 1, 1, 0, 0, 0>> >>

ModifiedTime(id) == ModifiedTimes[((id - 1) % Len(ModifiedTimes)) + 1]

\* rank of TourItem.title in the "ko" collation
TitleRank(id) == (2 * id) % 3

\* as ParseModifiedTime, but the stamp is sliced as DD MM YYYY HH mm ss
ParseModifiedTime_DayFirst(t) ==
    (((((t[3] - 1) * 12 + (t[2] - 1)) * 31 + (t[1] - 2000)) * 24 + t[4]) * 60 + t[5]) * 60 + t[6]

\* parseModifiedTime(...).getTime(), in seconds from the year 2000 with
\* months of 31 days: the same order as Date for well-formed stamps
ParseModifiedTime(t) ==
    (((((t[1] - 2000) * 12 + (t[2] - 1)) * 31 + t[3]) * 24 + t[4]) * 60 + t[5]) * 60 + t[6]

\* as Compare, but of two equal titles the first argument sorts first
Compare_TieSortsFirst(a, b, sortOption) ==
    IF sortOption = "latest"
    THEN ParseModifiedTime(ModifiedTime(b)) - ParseModifiedTime(ModifiedTime(a))
    ELSE IF sortOption = "name"
    THEN IF TitleRank(a) = TitleRank(b) THEN 0 - 1 ELSE TitleRank(a) - TitleRank(b)
    ELSE 0

\* the comparator of sorted.sort(...): negative when a sorts before b
Compare(a, b, sortOption) ==
    IF sortOption = "latest"
    THEN ParseModifiedTime(ModifiedTime(b)) - ParseModifiedTime(ModifiedTime(a))
    ELSE IF sortOption = "name"
    THEN TitleRank(a) - TitleRank(b)
    ELSE 0

\* Array.prototype.sort is stable: x goes in front of the first element it
\* strictly precedes
RECURSIVE InsertSorted(_, _, _)
InsertSorted(x, s, sortOption) ==
    IF s = <<>> THEN <<x>>
    ELSE IF Compare(x, Head(s), sortOption) < 0 THEN <<x>> \o s
    ELSE <<Head(s)>> \o InsertSorted(x, Tail(s), sortOption)

RECURSIVE SortFrom(_, _, _)
SortFrom(done, rest, sortOption) ==
    IF rest = <<>> THEN done
    ELSE SortFrom(InsertSorted(Head(rest), done, sortOption), Tail(rest), sortOption)

\* const sorted = [...tours], then sorted.sort(...) for a known option:
\* what sortTours returns
SortTours(tours, sortOption) == SortFrom(<<>>, tours, sortOption)

\* as CallerAfterSort, but the sort is applied to the caller's array
CallerAfterSort_InPlace(tours, sortOption) == SortFrom(<<>>, tours, sortOption)

\* the caller's array after sortTours(tours, sortOption): sort() reorders
\* the copy `sorted`, never `tours`
CallerAfterSort(tours, sortOption) == tours

\* ------------------------------------------------------------------------
\* Upstream responses
\* ------------------------------------------------------------------------

\* response.body.items.item: absent, null, one object, or an array
ItemAbsent == [tag |-> "absent", obj |-> 0, arr |-> <<>>]

ItemNull == [tag |-> "null", obj |-> 0, arr |-> <<>>]

ItemObject(id) == [tag |-> "object", obj |-> id, arr |-> <<>>]

ItemArray(s) == [tag |-> "array", obj |-> 0, arr |-> s]

\* the ids of a page are unique within the page
DistinctSeqs(n) ==
    UNION { { s \in [1..k -> ContentIds] : \A i, j \in 1..k : i # j => s[i] # s[j] } : k \in 0..n }

ItemShapes ==
    {ItemAbsent, ItemNull}
        \cup { ItemObject(id) : id \in ContentIds }
        \cup { ItemArray(s) : s \in DistinctSeqs(NumOfRows) }

\* header.resultCode values: the success sentinel and two upstream errors
SuccessCode == "0000"

ErrorCodes == {"22", "03"}

ResultMsgs == {"", "LIMITED_NUMBER_OF_SERVICE_REQUESTS_EXCEEDS_ERROR"}

HttpErrorStatuses == {404, 503}

\* fetch() rejected: connection refused, timeout, DNS
NetworkFailure ==
    [kind |-> "network", status |-> NoStatus, resultCode |-> Undefined,
     resultMsg |-> "fetch failed", item |-> ItemAbsent, totalCount |-> 0]

HttpFailure(s) ==
    [kind |-> "http", status |-> s, resultCode |-> Undefined,
     resultMsg |-> "", item |-> ItemAbsent, totalCount |-> 0]

ErrorEnvelope(code, msg) ==
    [kind |-> "http", status |-> 200, resultCode |-> code,
     resultMsg |-> msg, item |-> ItemAbsent, totalCount |-> 0]

SuccessEnvelope(item, total) ==
    [kind |-> "http", status |-> 200, resultCode |-> SuccessCode,
     resultMsg |-> "OK", item |-> item, totalCount |-> total]

SuccessResponses == { SuccessEnvelope(it, n) : it \in ItemShapes, n \in 0..MaxTotal }

FailureResponses ==
    {NetworkFailure}
        \cup { HttpFailure(s) : s \in HttpErrorStatuses }
        \cup { ErrorEnvelope(c, m) : c \in ErrorCodes, m \in ResultMsgs }

Responses == SuccessResponses \cup FailureResponses

\* Response.ok
ResponseOk(response) == response.status >= 200 /\ response.status <= 299

\* ------------------------------------------------------------------------
\* Errors and results
\* ------------------------------------------------------------------------

\* an Error object: its class, message (text fragments), and the two
\* optional fields of TourApiError
ErrorObject(name, message, code, statusCode) ==
    [name |-> name, message |-> message, code |-> code, statusCode |-> statusCode]

NoError == ErrorObject("none", <<>>, Undefined, NoStatus)

TourApiError(message, code, statusCode) ==
    ErrorObject("TourApiError", message, code, statusCode)

PlainError(message) == ErrorObject("Error", message, Undefined, NoStatus)

\* the TypeError a rejected fetch() throws
FetchTypeError(response) ==
    ErrorObject("TypeError", <<response.resultMsg>>, Undefined, NoStatus)

Returned(value) == [ok |-> TRUE, value |-> value, error |-> NoError]

Thrown(error) == [ok |-> FALSE, value |-> <<>>, error |-> error]

\* as ItemsToArray, but a single object is not wrapped into an array
ItemsToArray_ObjectDropped(item) ==
    IF item.tag = "array" THEN item.arr ELSE <<>>

\* !items ? [] : Array.isArray(items) ? items : [items]
ItemsToArray(item) ==
    IF item.tag \in {"absent", "null"} THEN <<>>
    ELSE IF item.tag = "array" THEN item.arr
    ELSE <<item.obj>>

\* parseApiResponse, on the Response fetchWithRetry returned
ParseApiResponse(response) ==
    IF ~ResponseOk(response)
    THEN Thrown(TourApiError(<<"API request failed:", ToString(response.status)>>,
                             Undefined, response.status))
    ELSE IF response.resultCode # SuccessCode
    THEN Thrown(TourApiError(
                    <<IF response.resultMsg # "" THEN response.resultMsg ELSE "API error">>,
                    response.resultCode, NoStatus))
    ELSE Returned(ItemsToArray(response.item))

\* ------------------------------------------------------------------------
\* The server action behind a page fetch
\* ------------------------------------------------------------------------

\* fetchToursWithTotalCount: one fetch(), no retry
FetchToursWithTotalCount(response) ==
    IF response.kind = "network"
    THEN [ok |-> FALSE, tours |-> <<>>, totalCount |-> 0, error |-> FetchTypeError(response)]
    ELSE IF ~ResponseOk(response)
    THEN [ok |-> FALSE, tours |-> <<>>, totalCount |-> 0,
          error |-> PlainError(<<"API request failed:", ToString(response.status)>>)]
    ELSE IF response.resultCode # SuccessCode
    THEN [ok |-> FALSE, tours |-> <<>>, totalCount |-> 0,
          error |-> PlainError(
              <<IF response.resultMsg # "" THEN response.resultMsg ELSE "API error">>)]
    ELSE [ok |-> TRUE, tours |-> ItemsToArray(response.item),
          totalCount |-> response.totalCount, error |-> NoError]

\* hasMore as loadMoreTours computes it
HasMoreAfter(pageNo, total) == pageNo * NumOfRows < total

\* loadMoreTours(pageNo, {sort, numOfRows}) when the upstream answers `response`
LoadMoreTours(pageNo, sortOption, response) ==
    LET result == FetchToursWithTotalCount(response) IN
    IF result.ok
    THEN [ok |-> TRUE,
          tours |-> SortTours(result.tours, sortOption),
          hasMore |-> HasMoreAfter(pageNo, result.totalCount),
          totalCount |-> result.totalCount,
          error |-> NoError]
    ELSE [ok |-> FALSE, tours |-> <<>>, hasMore |-> FALSE, totalCount |-> 0,
          error |-> PlainError(result.error.message)]

\* ------------------------------------------------------------------------
\* Numbers and strings of the coordinate fields
\* ------------------------------------------------------------------------

\* 10000000, the divisor of the KATEC branch
KATEC_SCALE == 10000000

\* 1000000, the magnitude from which a value is taken as KATEC
KATEC_MIN == 1000000

\* A JavaScript number is a sign, a whole part and a fraction counted in
\* units of 10^-8; the coordinates of the model have at most one decimal
\* digit, so that dividing them by 10^7 is exact.
FracUnit == 10 * KATEC_SCALE

Num(neg, whole, frac) == [nan |-> FALSE, neg |-> neg, whole |-> whole, frac |-> frac]

NaN == [nan |-> TRUE, neg |-> FALSE, whole |-> 0, frac |-> 0]

\* the number n / 10
Tenths(n) ==
    LET m == IF n < 0 THEN 0 - n ELSE n IN
    Num(n < 0, m \div 10, (m % 10) * (FracUnit \div 10))

\* v === 0 (0 and -0 alike)
IsZero(v) == ~v.nan /\ v.whole = 0 /\ v.frac = 0

\* !v for a number: 0, -0 and NaN are falsy
Falsy(v) == v.nan \/ IsZero(v)

\* isNaN(v)
IsNaN(v) == v.nan

MagLess(a, b) == a.whole < b.whole \/ (a.whole = b.whole /\ a.frac < b.frac)

\* a < b; every comparison with NaN is false
Less(a, b) ==
    /\ ~a.nan
    /\ ~b.nan
    /\ IF a.neg /\ ~b.neg THEN ~(IsZero(a) /\ IsZero(b))
       ELSE IF ~a.neg /\ b.neg THEN FALSE
       ELSE IF a.neg THEN MagLess(b, a)
       ELSE MagLess(a, b)

\* a >= b
GreaterEq(a, b) == ~a.nan /\ ~b.nan /\ ~Less(a, b)

\* Math.abs(v)
Abs(v) == IF v.nan THEN NaN ELSE Num(FALSE, v.whole, v.frac)

\* v / 10000000
DivideByScale(v) ==
    IF v.nan THEN NaN
    ELSE Num(v.neg, v.whole \div KATEC_SCALE,
             (v.whole % KATEC_SCALE) * (FracUnit \div KATEC_SCALE) + v.frac \div KATEC_SCALE)

\* a string is the sequence of its characters
Digits == <<"0", "1", "2", "3", "4", "5", "6", "7", "8", "9">>

IsDigit(c) == \E i \in 1..Len(Digits) : Digits[i] = c

DigitValue(c) == (CHOOSE i \in 1..Len(Digits) : Digits[i] = c) - 1

\* parseFloat skips leading white space
RECURSIVE TrimStart(_)
TrimStart(s) == IF s # <<>> /\ Head(s) = " " THEN TrimStart(Tail(s)) ELSE s

\* the longest run of decimal digits s starts with
RECURSIVE DigitPrefix(_)
DigitPrefix(s) ==
    IF s # <<>> /\ IsDigit(Head(s)) THEN <<Head(s)>> \o DigitPrefix(Tail(s)) ELSE <<>>

RECURSIVE DigitsToNat(_, _)
DigitsToNat(acc, ds) ==
    IF ds = <<>> THEN acc ELSE DigitsToNat(acc * 10 + DigitValue(Head(ds)), Tail(ds))

RECURSIVE Pow10(_)
Pow10(n) == IF n = 0 THEN 1 ELSE 10 * Pow10(n - 1)

\* the digits after the point, in units of 10^-8
FractionOf(ds) ==
    LET k == IF Len(ds) < 8 THEN Len(ds) ELSE 8 IN
    DigitsToNat(0, SubSeq(ds, 1, k)) * Pow10(8 - k)

\* parseFloat(s): the longest prefix of the trimmed string that is a decimal
\* literal (sign, digits, point, digits), NaN when there is none. The
\* strings of the model carry no exponent and do not spell Infinity.
ParseFloat(s) ==
    LET t == TrimStart(s)
        signed == t # <<>> /\ Head(t) \in {"+", "-"}
        u == IF signed THEN Tail(t) ELSE t
        ip == DigitPrefix(u)
        r == SubSeq(u, Len(ip) + 1, Len(u))
        fp == IF r # <<>> /\ Head(r) = "." THEN DigitPrefix(Tail(r)) ELSE <<>>
    IN  IF ip = <<>> /\ fp = <<>> THEN NaN
        ELSE Num(signed /\ Head(t) = "-", DigitsToNat(0, ip), FractionOf(fp))

\* a coordinate field: string | number
RawNumber(v) == [type |-> "number", num |-> v, str |-> <<>>]

RawString(s) == [type |-> "string", num |-> NaN, str |-> s]

\* typeof raw === "string" ? parseFloat(raw) : raw
ToNumber(raw) == IF raw.type = "string" THEN ParseFloat(raw.str) ELSE raw.num

\* ------------------------------------------------------------------------
\* convertKATECToWGS84
\* ------------------------------------------------------------------------

LatMin == Tenths(325)

LatMax == Tenths(435)

LngMin == Tenths(1235)

LngMax == Tenths(1325)

NullPoint == [isNull |-> TRUE, lng |-> NaN, lat |-> NaN]

GeoPoint(lng, lat) == [isNull |-> FALSE, lng |-> lng, lat |-> lat]

\* as InvalidInput, but only a zero is rejected
InvalidInput_ZeroOnly(x, y) == IsZero(x) \/ IsZero(y)

\* !x || !y || isNaN(x) || isNaN(y) || x === 0 || y === 0
InvalidInput(x, y) ==
    Falsy(x) \/ Falsy(y) \/ IsNaN(x) \/ IsNaN(y) \/ IsZero(x) \/ IsZero(y)

\* as IsKATEC, but no pair is taken as KATEC
IsKATEC_Never(x, y) == FALSE

\* Math.abs(x) >= 1000000 || Math.abs(y) >= 1000000
IsKATEC(x, y) ==
    GreaterEq(Abs(x), Num(FALSE, KATEC_MIN, 0)) \/ GreaterEq(Abs(y), Num(FALSE, KATEC_MIN, 0))

\* as OutOfBox, but the longitude is not checked
OutOfBox_LatOnly(lat, lng) == Less(lat, LatMin) \/ Less(LatMax, lat)

\* lat < 32.5 || lat > 43.5 || lng < 123.5 || lng > 132.5
OutOfBox(lat, lng) ==
    Less(lat, LatMin) \/ Less(LatMax, lat) \/ Less(lng, LngMin) \/ Less(LngMax, lng)

ConvertKATECToWGS84(mapx, mapy) ==
    LET x == ToNumber(mapx)
        y == ToNumber(mapy)
        isKATEC == IsKATEC(x, y)
        lng == IF isKATEC THEN DivideByScale(x) ELSE x
        lat == IF isKATEC THEN DivideByScale(y) ELSE y
    IN  IF InvalidInput(x, y) THEN NullPoint
        ELSE IF OutOfBox(lat, lng) THEN NullPoint
        ELSE GeoPoint(lng, lat)

\* the coordinate fields the conversion is applied to
RawCoordinates ==
    { RawNumber(Tenths(n)) :
        n \in {0, 375, 1269, 325, 435, 1235, 1325, 324, 436, 1234, 1326, 0 - 1269} }
    \cup { RawNumber(Num(FALSE, n, 0)) :
        n \in {375000000, 1269000000, 325000000, 435000000, 1235000000, 1325000000,
               324999999, 435000001, 1234999999, 1325000001, 1000000, 999999} }
    \cup { RawNumber(Num(TRUE, 1269000000, 0)), RawNumber(Num(TRUE, 0, 0)), RawNumber(NaN) }
    \cup { RawString(<<"a", "b", "c">>), RawString(<<"d", "e", "f">>), RawString(<<>>), RawString(<<"0">>),
           RawString(<<"3", "7", ".", "5">>), RawString(<<"1", "2", "6", ".", "9">>),
           RawString(<<" ", "3", "7", ".", "5">>), RawString(<<"1", "2", "6", ".", "9", "x">>),
           RawString(<<"3", "7", "5", "0", "0", "0", "0", "0", "0">>),
           RawString(<<"1", "2", "6", "9", "0", "0", "0", "0", "0", "0">>),
           RawString(<<"-", "3", "7", ".", "5">>), RawString(<<".", "5">>) }

\* ------------------------------------------------------------------------
\* State
\* ------------------------------------------------------------------------

\* a filter context: the search parameters a page request is made under
FilterContexts ==
    { [areaCode |-> "1", sort |-> "latest"], [areaCode |-> "2", sort |-> "name"] }

VARIABLES
    \* TourMapLayout: props and search parameters
    searchParams,       \* areaCode, contentTypeId, keyword, sort of the URL
    initialTours,       \* props.tours: the first page, fetched by the page
    initialTotalCount,  \* props.initialTotalCount
    \* TourMapLayout: React state
    allTours,
    currentPage,
    isLoadingMore,
    hasMore,
    totalCount,
    \* the render whose values the registered IntersectionObserver callback
    \* (and the handleLoadMore it calls) closes over
    observed,
    \* loadMoreTours calls that have not settled yet
    pending,
    \* number of loadMoreTours calls issued so far
    calls,
    \* the error handleLoadMore last caught: the call whose await threw,
    \* the resultCode of the upstream answer behind it, and the error object
    caught,
    \* callApi: one call
    apiPc,              \* "idle", "fetching", "waiting" (backoff), "done"
    retryCount,         \* the retryCount argument of fetchWithRetry
    attempts,           \* what each fetch() so far settled with
    waited,             \* the backoff delays that have elapsed, in ms
    apiResult,          \* what callApi returned or threw
    \* convertKATECToWGS84: one call
    inMapx,             \* the argument mapx
    inMapy,             \* the argument mapy
    geoPc,              \* "called", "returned"
    geoResult,          \* what the call returned
    \* sortTours: calls chained on one array
    sortOption,         \* the argument sortOption
    callerTours,        \* the caller's array
    sortArg,            \* the content of the caller's array when it was passed
    sortResult,         \* the array the last call returned
    prevResult,         \* the array the call before it returned
    sortPc,             \* "ready", "returned"
    sortCalls,          \* calls made so far
    \* TourMapLayout: selection state
    selectedContentId,
    hoveredContentId,
    \* NaverMap: React state and refs
    isScriptLoaded,
    hasValidCoordinates,
    mapInstance,        \* mapInstanceRef.current is set
    markersRef,         \* the content id each marker was created for
    infoWindowsRef,     \* the info windows: content id shown, open or closed
    \* what convertKATECToWGS84(tour.mapx, tour.mapy) returns for each tour:
    \* the fields of a tour never change, and the effects convert them anew
    \* on every run
    converted,
    \* the calls the last step made on the map
    mapCalls,
    \* getStatsSummary: one call
    statsPromises,      \* the request promises: getAreaCode and each fetchTotalCountOnly
    summaryPromise,     \* the promise getStatsSummary returned
    \* HomePage and the error boundary: one request of the page
    pageError,          \* what the request ended with: the failure behind it and the error caught
    canRetry,           \* whether onRetry was handed to the error display
    errorPc             \* "loading", "parsing", "shown" (the page), "displayed" (the error)

pageVars ==
    <<searchParams, initialTours, initialTotalCount, allTours, currentPage,
      isLoadingMore, hasMore, totalCount, observed, pending, calls, caught>>

apiVars == <<apiPc, retryCount, attempts, waited, apiResult>>

geoVars == <<inMapx, inMapy, geoPc, geoResult>>

sortVars == <<sortOption, callerTours, sortArg, sortResult, prevResult, sortPc, sortCalls>>

mapVars ==
    <<selectedContentId, hoveredContentId, isScriptLoaded, hasValidCoordinates,
      mapInstance, markersRef, infoWindowsRef, converted, mapCalls>>

statsVars == <<statsPromises, summaryPromise>>

retryVars == <<pageError, canRetry, errorPc>>

vars == <<pageVars, apiVars, geoVars, sortVars, mapVars, statsVars, retryVars>>

\* what the steps of one component leave alone
offPage == <<apiVars, geoVars, sortVars, mapVars, statsVars, retryVars>>

offApi == <<pageVars, geoVars, sortVars, mapVars, statsVars, retryVars>>

offGeo == <<pageVars, apiVars, sortVars, mapVars, statsVars, retryVars>>

offSort == <<pageVars, apiVars, geoVars, mapVars, statsVars, retryVars>>

offMap == <<apiVars, geoVars, sortVars, statsVars, retryVars>>

offStats == <<pageVars, apiVars, geoVars, sortVars, mapVars, retryVars>>

offRetry == <<pageVars, apiVars, geoVars, sortVars, mapVars, statsVars>>

\* ------------------------------------------------------------------------
\* TourMapLayout: pagination
\* ------------------------------------------------------------------------

\* what the page hands to TourMapLayout for a filter context: the first
\* page, sorted, and the upstream's totalCount
FirstPages(ctx) ==
    { [tours |-> SortTours(ItemsToArray(r.item), ctx.sort), totalCount |-> r.totalCount] :
        r \in SuccessResponses }

\* initialTotalCount ? initialTours.length < initialTotalCount
\*                   : initialTours.length >= 20
InitialHasMore(tours, total) ==
    IF total # 0 THEN Len(tours) < total ELSE Len(tours) >= NumOfRows

\* the values a render hands to the closures it creates
Closure(loading, more, page, ctx) ==
    [isLoadingMore |-> loading, hasMore |-> more, currentPage |-> page, ctx |-> ctx]

\* the dependency array of the IntersectionObserver effect
ObserverDeps(c) == <<c.isLoadingMore, c.hasMore, c.ctx>>

CurrentRender == Closure(isLoadingMore, hasMore, currentPage, searchParams)

\* the guard of handleLoadMore (and of the observer callback), on the
\* values of the render it was created in
LoadMoreGuard(c) == ~(c.isLoadingMore \/ ~c.hasMore)

\* the page handleLoadMore asks for
NextPage(c) == c.currentPage + 1

Caught(call, resultCode, error) ==
    [call |-> call, resultCode |-> resultCode, error |-> error]

NothingCaught == Caught(0, Undefined, NoError)

PageInit ==
    /\ searchParams \in FilterContexts
    /\ \E first \in FirstPages(searchParams) :
        /\ initialTours = first.tours
        /\ initialTotalCount = first.totalCount
    /\ allTours = initialTours
    /\ currentPage = 1
    /\ isLoadingMore = FALSE
    /\ hasMore = InitialHasMore(initialTours, initialTotalCount)
    /\ totalCount = initialTotalCount
    /\ observed = Closure(FALSE, hasMore, 1, searchParams)
    /\ pending = {}
    /\ calls = 0
    /\ caught = NothingCaught

\* as ResetState, but the page counter of the old session is kept
ResetState_PageKept(tours, total) ==
    /\ allTours' = tours
    /\ currentPage' = currentPage
    /\ isLoadingMore' = FALSE
    /\ hasMore' = InitialHasMore(tours, total)
    /\ totalCount' = total

\* the state the reset effect sets
ResetState(tours, total) ==
    /\ allTours' = tours
    /\ currentPage' = 1
    /\ isLoadingMore' = FALSE
    /\ hasMore' = InitialHasMore(tours, total)
    /\ totalCount' = total

\* The filter or search changes: the page passes the first page of the new
\* context. The render that receives it still reads the state of the old
\* session; in its effects pass the reset effect queues the reset and the
\* observer effect (its dependencies name the search parameters) registers a
\* new observer whose callback closes over that render.
FilterChange(ctx, first) ==
    /\ ctx # searchParams
    /\ searchParams' = ctx
    /\ initialTours' = first.tours
    /\ initialTotalCount' = first.totalCount
    /\ observed' = Closure(isLoadingMore, hasMore, currentPage, ctx)
    /\ ResetState(first.tours, first.totalCount)
    /\ UNCHANGED <<pending, calls, caught>>

\* A render after a state change. The observer effect runs again, and the
\* callback closes over the new render, only when one of its dependencies
\* changed.
Render ==
    /\ ObserverDeps(CurrentRender) # ObserverDeps(observed)
    /\ observed' = CurrentRender
    /\ UNCHANGED <<searchParams, initialTours, initialTotalCount, allTours, currentPage,
                   isLoadingMore, hasMore, totalCount, pending, calls, caught>>

\* The sentinel intersects and the observer callback calls handleLoadMore,
\* up to the await of loadMoreTours.
HandleLoadMore ==
    /\ calls < MaxCalls
    /\ LoadMoreGuard(observed)
    /\ isLoadingMore' = TRUE
    /\ calls' = calls + 1
    /\ pending' = pending \cup
            { [call |-> calls + 1, pageNo |-> NextPage(observed), ctx |-> observed.ctx] }
    /\ UNCHANGED <<searchParams, initialTours, initialTotalCount, allTours, currentPage,
                   hasMore, totalCount, observed, caught>>

\* setAllTours((prev) => [...prev, ...result.tours])
AppendTours(prev, tours) == prev \o tours

\* loadMoreTours resolved: the rest of the try block, then finally
LoadMoreResolved(req, response) ==
    LET result == LoadMoreTours(req.pageNo, req.ctx.sort, response) IN
    /\ req \in pending
    /\ result.ok
    /\ allTours' = AppendTours(allTours, result.tours)
    /\ currentPage' = req.pageNo
    /\ hasMore' = result.hasMore
    /\ totalCount' = result.totalCount
    /\ isLoadingMore' = FALSE
    /\ pending' = pending \ {req}
    /\ UNCHANGED <<searchParams, initialTours, initialTotalCount, observed, calls, caught>>

\* as HasMoreAfterFailure, but the catch block leaves hasMore set
HasMoreAfterFailure_StillTrue == TRUE

\* the catch block of handleLoadMore: setHasMore(false)
HasMoreAfterFailure == FALSE

\* as LoadMoreRejected, but without the finally block
LoadMoreRejected_NoFinally(req, response) ==
    LET result == LoadMoreTours(req.pageNo, req.ctx.sort, response) IN
    /\ req \in pending
    /\ ~result.ok
    /\ caught' = Caught(req.call, response.resultCode, result.error)
    /\ hasMore' = HasMoreAfterFailure
    /\ pending' = pending \ {req}
    /\ UNCHANGED <<searchParams, initialTours, initialTotalCount, allTours, currentPage,
                   isLoadingMore, totalCount, observed, calls>>

\* loadMoreTours rejected: the catch block, then finally
LoadMoreRejected(req, response) ==
    LET result == LoadMoreTours(req.pageNo, req.ctx.sort, response) IN
    /\ req \in pending
    /\ ~result.ok
    /\ caught' = Caught(req.call, response.resultCode, result.error)
    /\ hasMore' = HasMoreAfterFailure
    /\ isLoadingMore' = FALSE
    /\ pending' = pending \ {req}
    /\ UNCHANGED <<searchParams, initialTours, initialTotalCount, allTours, currentPage,
                   totalCount, observed, calls>>

\* ------------------------------------------------------------------------
\* callApi: fetchWithRetry, then parseApiResponse
\* ------------------------------------------------------------------------

\* as RetryDelay, but every retry waits the first delay of the table
RetryDelay_Flat(n) == RETRY_DELAYS[1]

\* RETRY_DELAYS[retryCount] || RETRY_DELAYS[RETRY_DELAYS.length - 1]
RetryDelay(n) ==
    IF n + 1 <= Len(RETRY_DELAYS) THEN RETRY_DELAYS[n + 1] ELSE RETRY_DELAYS[Len(RETRY_DELAYS)]

\* as ShouldRetry, but every failed status (4xx too) is retried
ShouldRetry_AnyFailure(response, n) ==
    IF response.kind = "network"
    THEN n < MAX_RETRIES
    ELSE response.status >= 400 /\ n < MAX_RETRIES

\* as ShouldRetry, but the retry budget is compared with <=
ShouldRetry_OffByOne(response, n) ==
    IF response.kind = "network"
    THEN n <= MAX_RETRIES
    ELSE response.status >= 500 /\ n <= MAX_RETRIES

\* the retry conditions of fetchWithRetry: in the try block for a response,
\* in the catch block for a rejected fetch
ShouldRetry(response, n) ==
    IF response.kind = "network"
    THEN n < MAX_RETRIES
    ELSE response.status >= 500 /\ n < MAX_RETRIES

\* what callApi ends with when fetchWithRetry stops retrying on `response`
CallOutcome(response) ==
    IF response.kind = "network"
    THEN Thrown(TourApiError(<<"network error.", response.resultMsg>>, Undefined, NoStatus))
    ELSE ParseApiResponse(response)

\* callApi(endpoint, params) is called
CallApi ==
    /\ apiPc = "idle"
    /\ apiPc' = "fetching"
    /\ UNCHANGED <<retryCount, attempts, waited, apiResult>>

\* fetch() settles and is to be retried: the backoff timer is set
FetchRetry(response) ==
    /\ apiPc = "fetching"
    /\ ShouldRetry(response, retryCount)
    /\ attempts' = Append(attempts, response)
    /\ apiPc' = "waiting"
    /\ UNCHANGED <<retryCount, waited, apiResult>>

\* the backoff timer fires: fetchWithRetry(url, options, retryCount + 1)
BackoffElapsed ==
    /\ apiPc = "waiting"
    /\ waited' = Append(waited, RetryDelay(retryCount))
    /\ retryCount' = retryCount + 1
    /\ apiPc' = "fetching"
    /\ UNCHANGED <<attempts, apiResult>>

\* fetch() settles and is not retried: callApi returns or throws
FetchFinal(response) ==
    /\ apiPc = "fetching"
    /\ ~ShouldRetry(response, retryCount)
    /\ attempts' = Append(attempts, response)
    /\ apiResult' = CallOutcome(response)
    /\ apiPc' = "done"
    /\ UNCHANGED <<retryCount, waited>>

\* TourMapLayout as mounted on one fixed first page
PageIdle ==
    /\ searchParams = [areaCode |-> "1", sort |-> "latest"]
    /\ initialTours = <<>>
    /\ initialTotalCount = 0
    /\ allTours = <<>>
    /\ currentPage = 1
    /\ isLoadingMore = FALSE
    /\ hasMore = FALSE
    /\ totalCount = 0
    /\ observed = Closure(FALSE, FALSE, 1, searchParams)
    /\ pending = {}
    /\ calls = 0
    /\ caught = NothingCaught

ApiIdle ==
    /\ apiPc = "idle"
    /\ retryCount = 0
    /\ attempts = <<>>
    /\ waited = <<>>
    /\ apiResult = Returned(<<>>)

GeoIdle ==
    /\ inMapx = RawNumber(NaN)
    /\ inMapy = RawNumber(NaN)
    /\ geoPc = "returned"
    /\ geoResult = Returned(NullPoint)

\* the values the sort URL parameter is cast from: the two options and
\* any other string
SortOptionValues == {"latest", "name", "none"}

\* the arrays handed to sortTours
SortInputs == UNION { [1..k -> 1..MaxSortId] : k \in 0..MaxSortLen }

SortIdle ==
    /\ sortOption = "latest"
    /\ callerTours = <<>>
    /\ sortArg = <<>>
    /\ sortResult = <<>>
    /\ prevResult = <<>>
    /\ sortPc = "returned"
    /\ sortCalls = MaxSortCalls

\* TourItem.mapx and TourItem.mapy of the tours: the first without
\* coordinates ("0", the upstream's missing value), the second in KATEC
\* integers, the third in degrees
TourCoordinates ==
    << [mapx |-> RawString(<<"0">>), mapy |-> RawString(<<"0">>)],
       [mapx |-> RawString(<<"1", "2", "6", "9", "0", "0", "0", "0", "0", "0">>),
        mapy |-> RawString(<<"3", "7", "5", "0", "0", "0", "0", "0", "0">>)],
       [mapx |-> RawString(<<"1", "2", "7", ".", "5">>),
        mapy |-> RawString(<<"3", "6", ".", "5">>)] >>

Mapx(id) == TourCoordinates[((id - 1) % Len(TourCoordinates)) + 1].mapx

Mapy(id) == TourCoordinates[((id - 1) % Len(TourCoordinates)) + 1].mapy

\* convertKATECToWGS84(tour.mapx, tour.mapy), for every tour
ConvertedCoords == [id \in 1..(MaxId + 1) |-> ConvertKATECToWGS84(Mapx(id), Mapy(id))]

\* no content id: null
NoId == 0

\* TourMapLayout and NaverMap as mounted: nothing selected or hovered, the
\* map script still loading, no map
MapIdle ==
    /\ selectedContentId = NoId
    /\ hoveredContentId = NoId
    /\ isScriptLoaded = FALSE
    /\ hasValidCoordinates = TRUE
    /\ mapInstance = FALSE
    /\ markersRef = <<>>
    /\ infoWindowsRef = <<>>
    /\ converted = ConvertedCoords
    /\ mapCalls = <<>>

\* a promise: not created yet, pending, fulfilled with a value, rejected
NotCreated == [state |-> "not created", value |-> <<>>]

Pending == [state |-> "pending", value |-> <<>>]

FulfilledWith(value) == [state |-> "fulfilled", value |-> value]

RejectedWith(error) == [state |-> "rejected", value |-> error]

Settled(promise) == promise.state \in {"fulfilled", "rejected"}

\* the requests of one getStatsSummary call: the total count, the list of
\* area codes, and one count for each area code and each content type
TotalRequest == [kind |-> "total", key |-> ""]

AreaCodeRequest == [kind |-> "areaCode", key |-> ""]

\* the codes getAreaCode returns, in the order of its list
AreaCodes == <<"1", "2">>

\* Object.values(CONTENT_TYPE_ID): two of the eight types
ContentTypeIds == <<"12", "14">>

RegionRequest(code) == [kind |-> "region", key |-> code]

TypeRequest(id) == [kind |-> "type", key |-> id]

StatsRequests ==
    {TotalRequest, AreaCodeRequest}
        \cup { RegionRequest(AreaCodes[i]) : i \in 1..Len(AreaCodes) }
        \cup { TypeRequest(ContentTypeIds[i]) : i \in 1..Len(ContentTypeIds) }

\* no statistics call made
StatsIdle ==
    /\ statsPromises = [r \in StatsRequests |-> NotCreated]
    /\ summaryPromise = NotCreated

\* a request that was never sent: the argument check threw before fetch()
NoRequest ==
    [kind |-> "none", status |-> NoStatus, resultCode |-> Undefined,
     resultMsg |-> "", item |-> ItemAbsent, totalCount |-> 0]

\* what a request of the page ended with
Ended(cause, error) == [cause |-> cause, error |-> error]

\* the page was requested and has not rendered yet
RetryIdle ==
    /\ pageError = Ended(NoRequest, NoError)
    /\ canRetry = FALSE
    /\ errorPc = "loading"

Init == PageInit /\ ApiIdle /\ GeoIdle /\ SortIdle /\ MapIdle /\ StatsIdle /\ RetryIdle

Next ==
    \/ \E ctx \in FilterContexts : \E first \in FirstPages(ctx) :
            FilterChange(ctx, first) /\ UNCHANGED offPage
    \/ Render /\ UNCHANGED offPage
    \/ HandleLoadMore /\ UNCHANGED offPage
    \/ \E req \in pending : \E response \in SuccessResponses :
            LoadMoreResolved(req, response) /\ UNCHANGED offPage
    \/ \E req \in pending : \E response \in FailureResponses :
            LoadMoreRejected(req, response) /\ UNCHANGED offPage

Spec == Init /\ [][Next]_vars

\* the loadMoreTours call number `call` settles, resolved or rejected
FetchSettles(call) ==
    /\ \E req \in pending :
          /\ req.call = call
          /\ \/ \E response \in SuccessResponses : LoadMoreResolved(req, response)
             \/ \E response \in FailureResponses : LoadMoreRejected(req, response)
    /\ UNCHANGED offPage

\* the pagination session when every loadMoreTours call that was made
\* eventually settles
SpecLive == Init /\ [][Next]_vars /\ \A call \in 1..MaxCalls : WF_vars(FetchSettles(call))

InitApi == PageIdle /\ ApiIdle /\ GeoIdle /\ SortIdle /\ MapIdle /\ StatsIdle /\ RetryIdle

NextApi ==
    \/ CallApi /\ UNCHANGED offApi
    \/ \E response \in Responses : FetchRetry(response) /\ UNCHANGED offApi
    \/ BackoffElapsed /\ UNCHANGED offApi
    \/ \E response \in Responses : FetchFinal(response) /\ UNCHANGED offApi

SpecApi == InitApi /\ [][NextApi]_vars

\* ------------------------------------------------------------------------
\* loadMoreTours: one call, down to its fetch()
\* ------------------------------------------------------------------------

\* handleLoadMore awaits loadMoreTours(nextPage, {..., sort, numOfRows}):
\* fetchToursWithTotalCount builds the URL and calls fetch()
LoadMoreCalled ==
    /\ apiPc = "idle"
    /\ apiPc' = "fetching"
    /\ UNCHANGED <<retryCount, attempts, waited, apiResult>>

\* fetch() settles: fetchToursWithTotalCount returns or throws on this one
\* answer, and loadMoreTours returns the page or throws its own Error
PageFetchSettled(response) ==
    /\ apiPc = "fetching"
    /\ attempts' = Append(attempts, response)
    /\ apiResult' = LoadMoreTours(NextPage(CurrentRender), searchParams.sort, response)
    /\ apiPc' = "done"
    /\ UNCHANGED <<retryCount, waited>>

InitLoad == PageInit /\ ApiIdle /\ GeoIdle /\ SortIdle /\ MapIdle /\ StatsIdle /\ RetryIdle

NextLoad ==
    \/ LoadMoreCalled /\ UNCHANGED offApi
    \/ \E response \in Responses : PageFetchSettled(response) /\ UNCHANGED offApi

SpecLoad == InitLoad /\ [][NextLoad]_vars

\* ------------------------------------------------------------------------
\* convertKATECToWGS84 applied to coordinate fields
\* ------------------------------------------------------------------------

\* convertKATECToWGS84(mapx, mapy) runs to its return
Convert ==
    /\ geoPc = "called"
    /\ geoResult' = Returned(ConvertKATECToWGS84(inMapx, inMapy))
    /\ geoPc' = "returned"
    /\ UNCHANGED <<inMapx, inMapy>>

\* the next pair of coordinate fields is passed
NextCoordinates(x, y) ==
    /\ geoPc = "returned"
    /\ inMapx' = x
    /\ inMapy' = y
    /\ geoPc' = "called"
    /\ geoResult' = Returned(NullPoint)

InitGeo ==
    /\ PageIdle /\ ApiIdle /\ SortIdle /\ MapIdle /\ StatsIdle /\ RetryIdle
    /\ inMapx \in RawCoordinates
    /\ inMapy \in RawCoordinates
    /\ geoPc = "called"
    /\ geoResult = Returned(NullPoint)

NextGeo ==
    \/ Convert /\ UNCHANGED offGeo
    \/ \E x \in RawCoordinates, y \in RawCoordinates :
            NextCoordinates(x, y) /\ UNCHANGED offGeo

SpecGeo == InitGeo /\ [][NextGeo]_vars

\* ------------------------------------------------------------------------
\* sortTours applied to arrays of tours
\* ------------------------------------------------------------------------

\* sortTours(tours, sortOption) runs to its return
SortCall ==
    /\ sortPc = "ready"
    /\ sortArg' = callerTours
    /\ sortResult' = SortTours(callerTours, sortOption)
    /\ callerTours' = CallerAfterSort(callerTours, sortOption)
    /\ sortCalls' = sortCalls + 1
    /\ sortPc' = "returned"
    /\ UNCHANGED <<sortOption, prevResult>>

\* the caller takes the returned array as the array of its next call
SortAgain ==
    /\ sortPc = "returned"
    /\ sortCalls < MaxSortCalls
    /\ prevResult' = sortResult
    /\ callerTours' = sortResult
    /\ sortPc' = "ready"
    /\ UNCHANGED <<sortOption, sortArg, sortResult, sortCalls>>

InitSort ==
    /\ PageIdle /\ ApiIdle /\ GeoIdle /\ MapIdle /\ StatsIdle /\ RetryIdle
    /\ sortOption \in SortOptionValues
    /\ callerTours \in SortInputs
    /\ sortArg = <<>>
    /\ sortResult = <<>>
    /\ prevResult = <<>>
    /\ sortPc = "ready"
    /\ sortCalls = 0

NextSort ==
    \/ SortCall /\ UNCHANGED offSort
    \/ SortAgain /\ UNCHANGED offSort

SpecSort == InitSort /\ [][NextSort]_vars

\* ------------------------------------------------------------------------
\* NaverMap: markers, info windows, selection and hover
\* ------------------------------------------------------------------------

Coords(id) == converted[id]

HasCoords(id) == ~Coords(id).isNull

\* tours.findIndex((t) => t.contentid === id), counted from 1; 0 for -1
FindIndex(tours, id) ==
    IF \E i \in 1..Len(tours) : tours[i] = id
    THEN CHOOSE i \in 1..Len(tours) : tours[i] = id /\ \A j \in 1..(i - 1) : tours[j] # id
    ELSE 0

MapCall(op, position) == [op |-> op, position |-> position]

\* the state the effects of NaverMap read and write
MapState ==
    [hasValidCoordinates |-> hasValidCoordinates, mapInstance |-> mapInstance,
     markersRef |-> markersRef, infoWindowsRef |-> infoWindowsRef, mapCalls |-> <<>>]

\* the map container is rendered, so that mapRef.current is set: the script
\* is loaded and the render does not return the "no coordinates" message
MapMounted(scriptLoaded, validCoordinates, tours) ==
    scriptLoaded /\ ~(~validCoordinates /\ Len(tours) > 0)

\* 37.5665, 126.9780: the centre of Seoul
DefaultCenter == GeoPoint(Num(FALSE, 126, 97800000), Num(FALSE, 37, 56650000))

\* positions.reduce((sum, pos) => sum + pos.lat, 0), whole part and
\* fraction apart; the positions are not negative
RECURSIVE SumOf(_)
SumOf(values) ==
    IF values = <<>> THEN [whole |-> 0, frac |-> 0]
    ELSE LET rest == SumOf(Tail(values)) IN
         [whole |-> Head(values).whole + rest.whole, frac |-> Head(values).frac + rest.frac]

\* sum / positions.length, cut to 8 decimal digits
Mean(values) ==
    LET sum == SumOf(values)
        whole == sum.whole + sum.frac \div FracUnit
        frac == sum.frac % FracUnit
        n == Len(values)
    IN  Num(FALSE, whole \div n, ((whole % n) * FracUnit + frac) \div n)

\* centerLat >= 32.5 && centerLat <= 43.5 && centerLng >= 123.5 && centerLng <= 132.5
IsValidCenter(lat, lng) ==
    GreaterEq(lat, LatMin) /\ GreaterEq(LatMax, lat) /\ GreaterEq(lng, LngMin) /\ GreaterEq(LngMax, lng)

\* as FinalCenter, but the coordinates of the positions are summed and
\* the sum is taken as it is
FinalCenter_SumUnchecked(positions) ==
    LET sumLat == SumOf([i \in 1..Len(positions) |-> Coords(positions[i]).lat])
        sumLng == SumOf([i \in 1..Len(positions) |-> Coords(positions[i]).lng])
    IN  GeoPoint(Num(FALSE, sumLng.whole, sumLng.frac), Num(FALSE, sumLat.whole, sumLat.frac))

\* the centre the map is created with: the mean of the positions, or the
\* centre of Seoul when the mean is not in the box
FinalCenter(positions) ==
    LET centerLat == Mean([i \in 1..Len(positions) |-> Coords(positions[i]).lat])
        centerLng == Mean([i \in 1..Len(positions) |-> Coords(positions[i]).lng])
    IN  IF IsValidCenter(centerLat, centerLng)
        THEN GeoPoint(centerLng, centerLat)
        ELSE DefaultCenter

\* a new info window, closed
InfoWindow(id) == [contentid |-> id, open |-> FALSE]

\* the effect on [isScriptLoaded, tours, onTourSelect]: one marker and one
\* info window are pushed for each tour that has coordinates
MarkerEffect(m, tours, scriptLoaded, mounted) ==
    IF ~scriptLoaded \/ ~mounted THEN m
    ELSE IF Len(tours) = 0 THEN [m EXCEPT !.hasValidCoordinates = TRUE]
    ELSE LET positions == SelectSeq(tours, HasCoords) IN
         IF Len(positions) = 0 THEN [m EXCEPT !.hasValidCoordinates = FALSE]
         ELSE [hasValidCoordinates |-> TRUE,
               mapInstance |-> TRUE,
               markersRef |-> positions,
               infoWindowsRef |-> [i \in 1..Len(positions) |-> InfoWindow(positions[i])],
               mapCalls |->
                    Append(IF m.mapInstance THEN m.mapCalls
                           ELSE Append(m.mapCalls, MapCall("Map", FinalCenter(positions))),
                           MapCall("fitBounds", NullPoint))]

\* as ShouldPan, but the map is moved whatever the conversion returned
ShouldPan_Always(coords) == TRUE

\* if (!coords) return: the map is moved only to converted coordinates
ShouldPan(coords) == ~coords.isNull

\* infoWindowsRef.current.forEach((iw) => iw.close()), then the window at
\* index i is opened
OpenOnly(windows, i) ==
    [k \in 1..Len(windows) |-> [windows[k] EXCEPT !.open = (k = i)]]

\* the effect on [selectedContentId, tours]
SelectedEffect(m, tours, selected) ==
    LET markerIndex == FindIndex(tours, selected) IN
    IF selected = NoId \/ ~m.mapInstance THEN m
    ELSE IF markerIndex = 0 THEN m
    ELSE IF ~ShouldPan(Coords(selected)) THEN m
    ELSE LET panned ==
                [m EXCEPT !.mapCalls = Append(@, MapCall("panTo", Coords(selected)))]
         IN  IF markerIndex <= Len(m.infoWindowsRef)
             THEN [panned EXCEPT !.infoWindowsRef = OpenOnly(@, markerIndex)]
             ELSE panned

\* the effect on [hoveredContentId, tours, selectedContentId]
HoverEffect(m, tours, hovered, selected) ==
    LET markerIndex == FindIndex(tours, hovered) IN
    IF hovered = NoId \/ ~m.mapInstance
    THEN IF selected = NoId
         THEN [m EXCEPT !.infoWindowsRef = OpenOnly(@, 0)]
         ELSE m
    ELSE IF markerIndex = 0 THEN m
    ELSE IF markerIndex <= Len(m.infoWindowsRef)
    THEN [m EXCEPT !.infoWindowsRef =
            [k \in 1..Len(@) |->
                [@[k] EXCEPT !.open =
                    IF k = markerIndex THEN TRUE
                    ELSE IF k <= Len(tours) /\ tours[k] = selected THEN @
                    ELSE FALSE]]]
    ELSE m

\* what the effects leave behind
Commit(m) ==
    /\ hasValidCoordinates' = m.hasValidCoordinates
    /\ mapInstance' = m.mapInstance
    /\ markersRef' = m.markersRef
    /\ infoWindowsRef' = m.infoWindowsRef
    /\ mapCalls' = m.mapCalls
    /\ UNCHANGED converted

\* the render after setAllTours: allTours is a new array, and the three
\* effects that name tours run in the order of their declaration
ToursRendered ==
    LET m1 == MarkerEffect(MapState, allTours', isScriptLoaded,
                           MapMounted(isScriptLoaded, hasValidCoordinates, allTours'))
        m2 == SelectedEffect(m1, allTours', selectedContentId)
        m3 == HoverEffect(m2, allTours', hoveredContentId, selectedContentId)
    IN  /\ Commit(m3)
        /\ UNCHANGED <<selectedContentId, hoveredContentId, isScriptLoaded>>

\* the map script is loaded: setIsScriptLoaded(true), and the marker effect
\* runs on the render that shows the map container
ScriptLoaded ==
    /\ ~isScriptLoaded
    /\ isScriptLoaded' = TRUE
    /\ Commit(MarkerEffect(MapState, allTours, TRUE,
                           MapMounted(TRUE, hasValidCoordinates, allTours)))
    /\ UNCHANGED <<selectedContentId, hoveredContentId>>

\* setSelectedContentId(id) and the render it causes: the effects that
\* name selectedContentId run. (React skips the render when the state is
\* set to the value it has.)
SelectionRendered(m, id) ==
    /\ selectedContentId' = id
    /\ IF id = selectedContentId
       THEN Commit(m)
       ELSE Commit(HoverEffect(SelectedEffect(m, allTours, id), allTours, hoveredContentId, id))

\* a card of the list is clicked: TourCard.handleClick, handleTourSelect
HandleTourSelect(id) ==
    /\ \E i \in 1..Len(allTours) : allTours[i] = id
    /\ id # selectedContentId
    /\ SelectionRendered(MapState, id)
    /\ UNCHANGED <<hoveredContentId, isScriptLoaded>>

\* the click listener of marker k: its own info window is opened, then
\* onTourSelect(tour.contentid)
MarkerClick(k) ==
    /\ mapInstance
    /\ MapMounted(isScriptLoaded, hasValidCoordinates, allTours)
    /\ k \in 1..Len(markersRef)
    /\ SelectionRendered([MapState EXCEPT !.infoWindowsRef = OpenOnly(@, k)], markersRef[k])
    /\ UNCHANGED <<hoveredContentId, isScriptLoaded>>

\* as SelectedAfterHover, but the hovered card becomes the selected one
SelectedAfterHover_Follows(selected, id) == id

\* handleTourHover sets hoveredContentId and nothing else
SelectedAfterHover(selected, id) == selected

\* the pointer enters a card (id) or leaves it (null): TourCard
\* handleMouseEnter and handleMouseLeave, handleTourHover
HandleTourHover(id) ==
    /\ id = NoId \/ \E i \in 1..Len(allTours) : allTours[i] = id
    /\ id # hoveredContentId
    /\ hoveredContentId' = id
    /\ selectedContentId' = SelectedAfterHover(selectedContentId, id)
    /\ Commit(HoverEffect(MapState, allTours, id, selectedContentId))
    /\ UNCHANGED isScriptLoaded

InitMap == PageInit /\ ApiIdle /\ GeoIdle /\ SortIdle /\ MapIdle /\ StatsIdle /\ RetryIdle

NextMap ==
    \/ \E ctx \in FilterContexts : \E first \in FirstPages(ctx) :
            FilterChange(ctx, first) /\ ToursRendered /\ UNCHANGED offMap
    \/ Render /\ UNCHANGED <<offMap, mapVars>>
    \/ calls < MaxMapCalls /\ HandleLoadMore /\ UNCHANGED <<offMap, mapVars>>
    \/ \E req \in pending : \E response \in SuccessResponses :
            LoadMoreResolved(req, response) /\ ToursRendered /\ UNCHANGED offMap
    \/ \E req \in pending : \E response \in FailureResponses :
            LoadMoreRejected(req, response) /\ UNCHANGED <<offMap, mapVars>>
    \/ ScriptLoaded /\ UNCHANGED <<offMap, pageVars>>
    \/ \E id \in ContentIds : HandleTourSelect(id) /\ UNCHANGED <<offMap, pageVars>>
    \/ \E k \in 1..Len(markersRef) : MarkerClick(k) /\ UNCHANGED <<offMap, pageVars>>
    \/ \E id \in ContentIds \cup {NoId} : HandleTourHover(id) /\ UNCHANGED <<offMap, pageVars>>

SpecMap == InitMap /\ [][NextMap]_vars

\* ------------------------------------------------------------------------
\* NaverMap and the cards over one list of tours
\* ------------------------------------------------------------------------

\* the lists of tours the page may pass: every tour at most once
TourLists ==
    UNION { { s \in [1..k -> 1..(MaxId + 1)] : \A i, j \in 1..k : i # j => s[i] # s[j] } :
            k \in 0..(MaxId + 1) }

\* TourMapLayout as mounted on the first page `tours`, the only page
PageShowing(tours) ==
    /\ searchParams = [areaCode |-> "1", sort |-> "latest"]
    /\ initialTours = tours
    /\ initialTotalCount = Len(tours)
    /\ allTours = tours
    /\ currentPage = 1
    /\ isLoadingMore = FALSE
    /\ hasMore = InitialHasMore(tours, Len(tours))
    /\ totalCount = Len(tours)
    /\ observed = Closure(FALSE, hasMore, 1, searchParams)
    /\ pending = {}
    /\ calls = 0
    /\ caught = NothingCaught

InitView ==
    /\ \E tours \in TourLists : PageShowing(tours)
    /\ ApiIdle /\ GeoIdle /\ SortIdle /\ MapIdle /\ StatsIdle /\ RetryIdle

NextView ==
    \/ ScriptLoaded /\ UNCHANGED <<offMap, pageVars>>
    \/ \E id \in 1..(MaxId + 1) : HandleTourSelect(id) /\ UNCHANGED <<offMap, pageVars>>
    \/ \E k \in 1..Len(markersRef) : MarkerClick(k) /\ UNCHANGED <<offMap, pageVars>>
    \/ \E id \in (1..(MaxId + 1)) \cup {NoId} :
            HandleTourHover(id) /\ UNCHANGED <<offMap, pageVars>>

SpecView == InitView /\ [][NextView]_vars

\* ------------------------------------------------------------------------
\* getStatsSummary, getRegionStats, getTypeStats
\* ------------------------------------------------------------------------

\* the totalCount values the upstream reports to fetchTotalCountOnly
StatsCounts == {1, 2}

\* what fetchTotalCountOnly and getAreaCode throw (the retries are over)
StatsError == TourApiError(<<"network error.", "fetch failed">>, Undefined, NoStatus)

\* statsPromises.map(async ...) with its try/catch, Promise.allSettled and
\* the filter: the entries of the requests that returned a count, in the
\* order of `keys`
Collected(promises, kind, keys) ==
    LET succeeded(key) == promises[[kind |-> kind, key |-> key]].state = "fulfilled"
        kept == SelectSeq(keys, succeeded)
    IN  [i \in 1..Len(kept) |->
            [key |-> kept[i], count |-> promises[[kind |-> kind, key |-> kept[i]]].value]]

\* stats.sort((a, b) => b.count - a.count): stable, the larger count first
RECURSIVE SortByCount(_)
SortByCount(stats) ==
    IF stats = <<>> THEN <<>>
    ELSE LET rest == SortByCount(Tail(stats))
             before == SelectSeq(rest, LAMBDA e : e.count > Head(stats).count)
             after == SelectSeq(rest, LAMBDA e : e.count <= Head(stats).count)
         IN  before \o <<Head(stats)>> \o after

\* the promise of the map over `keys`, joined with Promise.allSettled, then
\* filtered and sorted: pending until every request has settled
StatsPromise(promises, kind, keys) ==
    IF \A i \in 1..Len(keys) : Settled(promises[[kind |-> kind, key |-> keys[i]]])
    THEN FulfilledWith(SortByCount(Collected(promises, kind, keys)))
    ELSE Pending

\* the promise of getRegionStats(): it awaits getAreaCode() first and
\* throws when that fails
RegionStatsPromise(promises) ==
    IF promises[AreaCodeRequest].state = "rejected" THEN RejectedWith(StatsError)
    ELSE IF promises[AreaCodeRequest].state = "fulfilled"
    THEN StatsPromise(promises, "region", AreaCodes)
    ELSE Pending

\* the promise of getTypeStats()
TypeStatsPromise(promises) == StatsPromise(promises, "type", ContentTypeIds)

\* stats.slice(0, 3)
Top3(stats) == SubSeq(stats, 1, IF Len(stats) < 3 THEN Len(stats) ELSE 3)

\* Promise.all: rejected as soon as one promise is rejected, fulfilled with
\* the values once all are fulfilled
PromiseAll(promises) ==
    IF \E i \in 1..Len(promises) : promises[i].state = "rejected"
    THEN RejectedWith(StatsError)
    ELSE IF \A i \in 1..Len(promises) : promises[i].state = "fulfilled"
    THEN FulfilledWith([i \in 1..Len(promises) |-> promises[i].value])
    ELSE Pending

\* getStatsSummary() is called: the total count request, getRegionStats()
\* (which calls getAreaCode()) and getTypeStats() (which maps over the
\* content types) are started one after the other without an await
GetStatsSummary ==
    /\ summaryPromise.state = "not created"
    /\ summaryPromise' = Pending
    /\ statsPromises' = [r \in StatsRequests |->
            IF r.kind = "region" THEN NotCreated ELSE Pending]

\* getAreaCode() resolves: getRegionStats maps over the area codes and one
\* fetchTotalCountOnly is started for each
AreaCodesResolved ==
    /\ statsPromises[AreaCodeRequest].state = "pending"
    /\ statsPromises' = [r \in StatsRequests |->
            IF r = AreaCodeRequest THEN FulfilledWith(AreaCodes)
            ELSE IF r.kind = "region" THEN Pending
            ELSE statsPromises[r]]
    /\ UNCHANGED summaryPromise

\* getAreaCode() rejects
AreaCodesRejected ==
    /\ statsPromises[AreaCodeRequest].state = "pending"
    /\ statsPromises' = [statsPromises EXCEPT ![AreaCodeRequest] = RejectedWith(StatsError)]
    /\ UNCHANGED summaryPromise

\* a fetchTotalCountOnly returns the totalCount of its answer
CountResolved(r, count) ==
    /\ r.kind \in {"total", "region", "type"}
    /\ statsPromises[r].state = "pending"
    /\ statsPromises' = [statsPromises EXCEPT ![r] = FulfilledWith(count)]
    /\ UNCHANGED summaryPromise

\* a fetchTotalCountOnly throws
CountRejected(r) ==
    /\ r.kind \in {"total", "region", "type"}
    /\ statsPromises[r].state = "pending"
    /\ statsPromises' = [statsPromises EXCEPT ![r] = RejectedWith(StatsError)]
    /\ UNCHANGED summaryPromise

\* the await of Promise.all([totalCountPromise, regionStatsPromise,
\* typeStatsPromise]) is over: getStatsSummary returns the summary or throws
SummarySettled ==
    LET joined == PromiseAll(<<statsPromises[TotalRequest],
                               RegionStatsPromise(statsPromises),
                               TypeStatsPromise(statsPromises)>>)
    IN  /\ summaryPromise.state = "pending"
        /\ Settled(joined)
        /\ summaryPromise' =
                IF joined.state = "rejected" THEN RejectedWith(StatsError)
                ELSE FulfilledWith([totalCount |-> joined.value[1],
                                    topRegions |-> Top3(joined.value[2]),
                                    topTypes |-> Top3(joined.value[3])])
        /\ UNCHANGED statsPromises

InitStats == PageIdle /\ ApiIdle /\ GeoIdle /\ SortIdle /\ MapIdle /\ StatsIdle /\ RetryIdle

NextStats ==
    \/ GetStatsSummary /\ UNCHANGED offStats
    \/ AreaCodesResolved /\ UNCHANGED offStats
    \/ AreaCodesRejected /\ UNCHANGED offStats
    \/ \E r \in StatsRequests : \E count \in StatsCounts :
            CountResolved(r, count) /\ UNCHANGED offStats
    \/ \E r \in StatsRequests : CountRejected(r) /\ UNCHANGED offStats
    \/ SummarySettled /\ UNCHANGED offStats

SpecStats == InitStats /\ [][NextStats]_vars

\* ------------------------------------------------------------------------
\* The error display: whether a retry is offered
\* ------------------------------------------------------------------------

\* the upstream's answer to an unknown request parameter, once bare and
\* once quoting the parameter
InvalidParameterMsgs ==
    {"INVALID_REQUEST_PARAMETER_ERROR", "INVALID_REQUEST_PARAMETER_ERROR (numOfRows=500)"}

\* the answers a request of a page can end with: those of Responses, more
\* HTTP statuses, the TypeError text of a browser, and two more resultCodes
RetryResponses ==
    Responses
        \cup {[NetworkFailure EXCEPT !.resultMsg = "Failed to fetch"]}
        \cup { HttpFailure(s) : s \in {400, 500, 502} }
        \cup { ErrorEnvelope(c, m) : c \in ErrorCodes \cup {"10", "30"}, m \in InvalidParameterMsgs }

\* the messages of the argument checks of tour-api.ts
ArgumentMessages == {"enter a search keyword", "enter a content id"}

\* String.prototype.toLowerCase on a text of the model; digits and
\* lower-case texts are their own lower case
ToLowerCase(text) ==
    CASE text = "Failed to fetch" -> "failed to fetch"
      [] text = "API request failed:" -> "api request failed:"
      [] text = "API error" -> "api error"
      [] text = "OK" -> "ok"
      [] text = "LIMITED_NUMBER_OF_SERVICE_REQUESTS_EXCEEDS_ERROR"
            -> "limited_number_of_service_requests_exceeds_error"
      [] text = "INVALID_REQUEST_PARAMETER_ERROR" -> "invalid_request_parameter_error"
      [] text = "INVALID_REQUEST_PARAMETER_ERROR (numOfRows=500)"
            -> "invalid_request_parameter_error (numofrows=500)"
      [] OTHER -> text

\* the words searched for that a text contains; "network" stands for the
\* Korean word of the message fetchWithRetry throws
WordsIn(text) ==
    CASE text = "fetch failed" -> {"fetch"}
      [] text = "Failed to fetch" -> {"fetch"}
      [] text = "failed to fetch" -> {"fetch", "failed to fetch"}
      [] text = "network error." -> {"network"}
      [] text = "INVALID_REQUEST_PARAMETER_ERROR (numOfRows=500)" -> {"500"}
      [] text = "invalid_request_parameter_error (numofrows=500)" -> {"500"}
      [] OTHER -> {text}

\* message.includes(word)
Includes(message, word) == \E i \in 1..Len(message) : word \in WordsIn(message[i])

isNetworkError(thrown) ==
    /\ thrown.name # "none"
    /\ LET message == [i \in 1..Len(thrown.message) |-> ToLowerCase(thrown.message[i])] IN
           \/ Includes(message, "network")
           \/ Includes(message, "fetch")
           \/ Includes(message, "failed to fetch")
           \/ Includes(message, "networkerror")
           \/ Includes(message, "err_network")
           \/ Includes(message, "network request failed")

shouldRetry(thrown) ==
    \/ isNetworkError(thrown)
    \/ /\ thrown.name = "TourApiError"
       /\ \/ thrown.statusCode # NoStatus /\ thrown.statusCode >= 500
          \/ thrown.code # Undefined
                /\ thrown.code \in {"SERVICE_ERROR", "TIMEOUT", "RATE_LIMIT"}
    \/ /\ thrown.name # "none"
       /\ \/ Includes(thrown.message, "500")
          \/ Includes(thrown.message, "503")
          \/ Includes(thrown.message, "504")

\* HomePage: fetch() of the first page settles with `response`; a rejected
\* fetch and a status that is not ok throw, and the catch block renders the
\* error display; otherwise the page awaits response.json()
HomePageFetched(response) ==
    /\ errorPc = "loading"
    /\ LET result == FetchToursWithTotalCount(response) IN
           IF response.kind = "network" \/ ~ResponseOk(response)
           THEN /\ pageError' = Ended(response, result.error)
                /\ canRetry' = shouldRetry(result.error)
                /\ errorPc' = "displayed"
           ELSE /\ pageError' = Ended(response, NoError)
                /\ canRetry' = FALSE
                /\ errorPc' = "parsing"

\* HomePage: response.json() resolves; the page renders, or the envelope
\* is an error and the catch block renders the error display
HomePageParsed ==
    /\ errorPc = "parsing"
    /\ LET result == FetchToursWithTotalCount(pageError.cause) IN
           /\ pageError' = Ended(pageError.cause, result.error)
           /\ canRetry' = IF result.ok THEN FALSE ELSE shouldRetry(result.error)
           /\ errorPc' = IF result.ok THEN "shown" ELSE "displayed"

\* ErrorBoundary: a callApi of the route threw after fetchWithRetry
\* stopped retrying on `response`
BoundaryCaught(response) ==
    /\ errorPc = "loading"
    /\ LET outcome == CallOutcome(response) IN
           /\ ~outcome.ok
           /\ pageError' = Ended(response, outcome.error)
           /\ canRetry' = shouldRetry(outcome.error)
           /\ errorPc' = "displayed"

\* ErrorBoundary: an argument check of tour-api.ts threw before any fetch
ArgumentRejected(message) ==
    /\ errorPc = "loading"
    /\ LET thrown == TourApiError(<<message>>, Undefined, NoStatus) IN
           /\ pageError' = Ended(NoRequest, thrown)
           /\ canRetry' = shouldRetry(thrown)
           /\ errorPc' = "displayed"

\* onRetry: window.location.reload(), or reset() of the boundary
Reload ==
    /\ errorPc = "displayed"
    /\ canRetry
    /\ pageError' = Ended(NoRequest, NoError)
    /\ canRetry' = FALSE
    /\ errorPc' = "loading"

InitRetry == PageIdle /\ ApiIdle /\ GeoIdle /\ SortIdle /\ MapIdle /\ StatsIdle /\ RetryIdle

NextRetry ==
    \/ \E response \in RetryResponses : HomePageFetched(response) /\ UNCHANGED offRetry
    \/ HomePageParsed /\ UNCHANGED offRetry
    \/ \E response \in RetryResponses : BoundaryCaught(response) /\ UNCHANGED offRetry
    \/ \E message \in ArgumentMessages : ArgumentRejected(message) /\ UNCHANGED offRetry
    \/ Reload /\ UNCHANGED offRetry

SpecRetry == InitRetry /\ [][NextRetry]_vars

\* ------------------------------------------------------------------------
\* Properties
\* ------------------------------------------------------------------------

Last(s) == s[Len(s)]

RECURSIVE SumSeq(_)
SumSeq(s) == IF s = <<>> THEN 0 ELSE Head(s) + SumSeq(Tail(s))

\* a fetch() outcome that the transport policy may retry
Retryable(response) == response.kind = "network" \/ response.status >= 500

IsSuccessEnvelope(response) ==
    response.kind = "http" /\ response.status = 200 /\ response.resultCode = "0000"

IsErrorEnvelope(response) ==
    response.kind = "http" /\ response.status = 200 /\ response.resultCode # "0000"

\* C1: a page response requested under a filter context other than the
\* current one is discarded when it arrives: the step that settles it leaves
\* the session's items as they were.
C1_StaleResponseDiscarded ==
    [][\A req \in pending \ pending' : req.ctx # searchParams => allTours' = allTours]_vars

\* C2: while a page fetch has not settled, a further load-more trigger makes
\* no network call.
C2_SecondTriggerNoCall ==
    [][pending # {} => calls' = calls]_vars

\* C3: the session's items never hold the same id twice.
C3_NoDuplicateIds ==
    \A i, j \in 1..Len(allTours) : i # j => allTours[i] # allTours[j]

C5_ResetFreshSession ==
    [][searchParams' # searchParams =>
            /\ allTours' = initialTours'
            /\ currentPage' = 1
            /\ isLoadingMore' = FALSE
            /\ totalCount' = initialTotalCount'
            /\ hasMore' = (IF initialTotalCount' # 0
                           THEN Len(initialTours') < initialTotalCount'
                           ELSE Len(initialTours') >= NumOfRows)]_vars

\* C5 witness: a page was appended under the old context (the only call
\* resolved), and the session is back on the first page of another context
C5_Witness ==
    /\ calls = 1
    /\ pending = {}
    /\ caught = NothingCaught
    /\ currentPage = 1
    /\ allTours = initialTours
    /\ allTours # <<>>

\* C6: a retry follows only a network failure or a status >= 500; a 4xx
\* response or a 200 response with a resultCode other than "0000" ends the
\* call at once, with an error.
C6_RetryOnlyTransient ==
    /\ \A i \in 1..Len(attempts) : i < Len(attempts) => Retryable(attempts[i])
    /\ (attempts # <<>> /\ ~Retryable(Last(attempts))) => apiPc = "done"
    /\ (attempts # <<>> /\ (IsErrorEnvelope(Last(attempts))
                            \/ Last(attempts).status \in 400..499))
            => ~apiResult.ok

\* C6 witness: the first answer is an error envelope and the call is over
C6_Witness ==
    /\ apiPc = "done"
    /\ Len(attempts) = 1
    /\ IsErrorEnvelope(attempts[1])
    /\ ~apiResult.ok

\* C7: a call makes at most 4 fetches; after 4 retryable failures it is over
\* and has thrown a TourApiError without an upstream code that carries the
\* last failure (its status, or the message of the network error).
C7_AtMostFourAttempts ==
    /\ Len(attempts) <= 4
    /\ (Len(attempts) = 4 /\ Retryable(Last(attempts))) =>
            /\ apiPc = "done"
            /\ ~apiResult.ok
            /\ apiResult.error.name = "TourApiError"
            /\ apiResult.error.code = Undefined
            /\ IF Last(attempts).kind = "network"
               THEN apiResult.error.message = <<"network error.", Last(attempts).resultMsg>>
               ELSE apiResult.error.statusCode = Last(attempts).status

\* C7 witness: four retryable failures, the last one a 503
C7_Witness ==
    /\ apiPc = "done"
    /\ Len(attempts) = 4
    /\ Last(attempts).status = 503
    /\ attempts[1].kind = "network"

\* C8: the k-th retry is issued after the k-th delay of 1000, 2000, 4000 ms
\* has elapsed; a call that meets 503, 503 and then a success envelope
\* returns the result after at least 3000 ms of waiting.
C8_BackoffSchedule ==
    /\ Len(waited) = retryCount
    /\ \A k \in 1..Len(waited) :
            waited[k] = (CASE k = 1 -> 1000 [] k = 2 -> 2000 [] OTHER -> 4000)
    /\ Len(attempts) <= Len(waited) + 1
    /\ apiPc = "fetching" => Len(attempts) = Len(waited)
    /\ (/\ apiPc = "done"
        /\ Len(attempts) = 3
        /\ attempts[1].status = 503
        /\ attempts[2].status = 503
        /\ IsSuccessEnvelope(attempts[3]))
            => apiResult.ok /\ SumSeq(waited) >= 1000 + 2000

\* C8 witness: 503, 503, then a success envelope
C8_Witness ==
    /\ apiPc = "done"
    /\ Len(attempts) = 3
    /\ attempts[1].status = 503
    /\ attempts[2].status = 503
    /\ IsSuccessEnvelope(attempts[3])
    /\ apiResult.ok

\* C9: whenever an envelope carries a resultCode other than "0000", the
\* error raised is a TourApiError with that code and the upstream message:
\* for callApi, and for the page fetches of the pagination.
C9_ApiErrorKeepsCode ==
    /\ (apiPc = "done" /\ IsErrorEnvelope(Last(attempts))) =>
            /\ apiResult.error.name = "TourApiError"
            /\ apiResult.error.code = Last(attempts).resultCode
    /\ (caught.resultCode \notin {Undefined, "0000"}) =>
            /\ caught.error.name = "TourApiError"
            /\ caught.error.code = caught.resultCode

\* C10: on a success envelope callApi returns an array: one object gives a
\* one-element array, an array is returned as it is, an absent or null item
\* gives the empty array.
C10_ItemNormalisedToArray ==
    (apiPc = "done" /\ IsSuccessEnvelope(Last(attempts))) =>
        LET item == Last(attempts).item IN
        /\ apiResult.ok
        /\ item.tag = "object" => apiResult.value = <<item.obj>>
        /\ item.tag = "array" => apiResult.value = item.arr
        /\ item.tag \in {"absent", "null"} => apiResult.value = <<>>

\* C10 witness: a success envelope whose item is a single object
C10_Witness ==
    /\ apiPc = "done"
    /\ IsSuccessEnvelope(Last(attempts))
    /\ Last(attempts).item.tag = "object"
    /\ Len(apiResult.value) = 1

\* ------------------------------------------------------------------------
\* Properties of the selection and the map
\* ------------------------------------------------------------------------

\* the map was moved to the coordinates of tour id
PannedTo(made, id) ==
    \E i \in 1..Len(made) : made[i] = MapCall("panTo", Coords(id))

Panned(made) == \E i \in 1..Len(made) : made[i].op = "panTo"

\* the tours whose info window is open
OpenCallouts(windows) == { windows[k].contentid : k \in { j \in 1..Len(windows) : windows[j].open } }

\* the markers shown: those of markersRef while the map container is rendered
MarkersOnMap ==
    IF mapInstance /\ MapMounted(isScriptLoaded, hasValidCoordinates, allTours)
    THEN markersRef
    ELSE <<>>

\* C11: when a tour of the list that has coordinates becomes the selected
\* one, by a click on its card or on its marker, and the map exists, the
\* map is moved to the coordinates of that tour and the info window of that
\* tour, and no other, is open.
C11_SelectOpensOwnCallout ==
    [][ \A id \in ContentIds :
            ((HandleTourSelect(id) \/ \E k \in 1..Len(markersRef) :
                    MarkerClick(k) /\ markersRef[k] = id /\ id # selectedContentId)
                /\ HasCoords(id) /\ mapInstance /\ \E i \in 1..Len(allTours) : allTours[i] = id)
            => /\ selectedContentId' = id
               /\ PannedTo(mapCalls', id)
               /\ OpenCallouts(infoWindowsRef') = {id} ]_vars

\* C12: a click on the card of a tour without coordinates makes it the
\* selected one and does not move the map.
C12_SelectWithoutCoordsNoPan ==
    [][ \A id \in ContentIds :
            (HandleTourSelect(id) /\ ~HasCoords(id))
            => (selectedContentId' = id /\ ~Panned(mapCalls')) ]_vars

C12_Witness ==
    /\ selectedContentId = 1
    /\ ~HasCoords(1)
    /\ mapInstance
    /\ allTours = <<1, 2>>
    /\ mapCalls = <<>>

\* C13: a hover step and a step that appends a page or replaces the list
\* leave selectedContentId as it is; it changes only in a click on a card
\* or on a marker.
C13_SelectionOnlyBySelect ==
    [][ /\ (\A id \in ContentIds \cup {NoId} :
                HandleTourHover(id) => selectedContentId' = selectedContentId)
        /\ (allTours' # allTours \/ currentPage' # currentPage)
                => selectedContentId' = selectedContentId
        /\ selectedContentId' # selectedContentId
                => \/ \E id \in ContentIds : HandleTourSelect(id)
                   \/ \E k \in 1..Len(markersRef) : MarkerClick(k) ]_vars

C13_Witness ==
    /\ selectedContentId = 2
    /\ hoveredContentId = 1
    /\ allTours = <<2, 1>>
    /\ currentPage = 2

\* C14: once the map script is loaded, the markers shown are those of the
\* tours of allTours that have coordinates, one for each, in their order.
C14_MarkersForToursWithCoords ==
    isScriptLoaded => MarkersOnMap = SelectSeq(allTours, HasCoords)

\* ------------------------------------------------------------------------
\* Properties of convertKATECToWGS84
\* ------------------------------------------------------------------------

\* a string without any digit
NonNumeric(raw) ==
    raw.type = "string" /\ \A i \in 1..Len(raw.str) : ~IsDigit(raw.str[i])

NaNInput(raw) == raw.type = "number" /\ raw.num.nan

ZeroInput(raw) ==
    \/ raw.type = "number" /\ ~raw.num.nan /\ raw.num.whole = 0 /\ raw.num.frac = 0
    \/ raw.type = "string" /\ raw.str = <<"0">>

Rejected(raw) == NonNumeric(raw) \/ NaNInput(raw) \/ ZeroInput(raw)

\* 32.5 <= lat <= 43.5 and 123.5 <= lng <= 132.5
InBox(lat, lng) ==
    /\ GreaterEq(lat, Tenths(325)) /\ GreaterEq(Tenths(435), lat)
    /\ GreaterEq(lng, Tenths(1235)) /\ GreaterEq(Tenths(1325), lng)

\* |v| >= 1,000,000
Large(v) == v.whole >= 1000000

\* the pair in degrees, as the magnitudes of the inputs say
Degrees(x, y) ==
    IF Large(x) \/ Large(y)
    THEN [lat |-> DivideByScale(y), lng |-> DivideByScale(x)]
    ELSE [lat |-> y, lng |-> x]

C16_EncodingByMagnitude ==
    LET x == ToNumber(inMapx)
        y == ToNumber(inMapy)
    IN  (geoPc = "returned" /\ ~Falsy(x) /\ ~Falsy(y)) =>
            IF Large(x) \/ Large(y)
            THEN geoResult =
                    Returned(IF InBox(DivideByScale(y), DivideByScale(x))
                             THEN GeoPoint(DivideByScale(x), DivideByScale(y))
                             ELSE NullPoint)
            ELSE InBox(y, x) => geoResult = Returned(GeoPoint(x, y))

C16_Witness ==
    /\ geoPc = "returned"
    /\ inMapx = RawNumber(Num(FALSE, 1269000000, 0))
    /\ inMapy = RawNumber(Num(FALSE, 375000000, 0))
    /\ geoResult = Returned(GeoPoint(Tenths(1269), Tenths(375)))

\* C17: a returned point has 32.5 <= lat <= 43.5 and 123.5 <= lng <= 132.5,
\* and a pair whose value in degrees lies outside the box is answered null.
C17_ReturnedPointInBox ==
    LET x == ToNumber(inMapx)
        y == ToNumber(inMapy)
        d == Degrees(x, y)
    IN  geoPc = "returned" =>
            /\ ~geoResult.value.isNull => InBox(geoResult.value.lat, geoResult.value.lng)
            /\ (~Falsy(x) /\ ~Falsy(y) /\ ~InBox(d.lat, d.lng)) => geoResult.value.isNull

C17_Witness ==
    /\ geoPc = "returned"
    /\ inMapx = RawNumber(Num(FALSE, 1325000000, 0))
    /\ inMapy = RawNumber(Num(FALSE, 325000000, 0))
    /\ geoResult = Returned(GeoPoint(Tenths(1325), Tenths(325)))

\* ------------------------------------------------------------------------
\* Properties of sortTours
\* ------------------------------------------------------------------------

\* stamp a is not older than stamp b, field by field from the year on
RECURSIVE StampGeq(_, _)
StampGeq(a, b) ==
    IF a = <<>> THEN TRUE
    ELSE Head(a) > Head(b) \/ (Head(a) = Head(b) /\ StampGeq(Tail(a), Tail(b)))

\* how many times id occurs in s
Count(id, s) == Cardinality({ i \in 1..Len(s) : s[i] = id })

IsPermutation(s, t) ==
    Len(s) = Len(t) /\ \A i \in 1..Len(s) : Count(s[i], s) = Count(s[i], t)

\* C18: sortTours(tours, "latest") returns the tours newest first, the
\* stamps compared by their fields YYYY MM DD HH mm ss; the tour stamped
\* 20240301000000 comes before the one stamped 20240101000000.
C18_LatestDescending ==
    (sortPc = "returned" /\ sortOption = "latest") =>
        /\ \A i, j \in 1..Len(sortResult) :
                i < j => StampGeq(ModifiedTime(sortResult[i]), ModifiedTime(sortResult[j]))
        /\ sortArg = <<2, 1>> => sortResult = <<1, 2>>

C18_Witness ==
    /\ sortPc = "returned"
    /\ sortOption = "latest"
    /\ sortArg = <<3, 2, 1>>
    /\ sortResult = <<1, 2, 3>>

\* C19: sortTours leaves the caller's array as it was passed, for every
\* option, and returns a permutation of it.
C19_CallerArrayUntouched ==
    sortPc = "returned" =>
        /\ callerTours = sortArg
        /\ IsPermutation(sortResult, sortArg)

C19_Witness ==
    /\ sortPc = "returned"
    /\ sortOption = "name"
    /\ sortArg = <<1, 3, 2>>
    /\ callerTours = <<1, 3, 2>>
    /\ sortResult = <<3, 2, 1>>

\* C20: sorting by name the array a sort by name returned gives that
\* array again, element for element.
C20_NameIdempotent ==
    (sortPc = "returned" /\ sortOption = "name" /\ sortCalls >= 2) =>
        /\ sortArg = prevResult
        /\ sortResult = prevResult

C20_Witness ==
    /\ sortPc = "returned"
    /\ sortOption = "name"
    /\ sortCalls = 2
    /\ sortArg = <<2, 1, 4>>
    /\ sortResult = <<2, 1, 4>>

\* ------------------------------------------------------------------------
\* Properties: the pagination session, continued
\* ------------------------------------------------------------------------

\* the page fetches of the current session that have not settled
Outstanding == { req \in pending : req.ctx = searchParams }

\* C21: at most one page fetch of the session is outstanding, and an
\* outstanding fetch asks for the page after the last one merged, so that no
\* page is requested twice or skipped.
C21_PageFetchesSequential ==
    /\ Cardinality(Outstanding) <= 1
    /\ \A req \in Outstanding : req.pageNo = currentPage + 1

\* a step in which a page fetch of the current session resolved
PageMerged ==
    \E req \in pending \ pending' : req.ctx = searchParams /\ caught' = caught

\* C22: after the first page and after each page merged, the session has
\* more pages exactly when it holds fewer items than the totalCount the
\* upstream reported (the page always passes a totalCount, 0 included).
C22_ExhaustedFromItemCount ==
    [][(searchParams' # searchParams \/ PageMerged)
            => hasMore' = (Len(allTours') < totalCount')]_vars

\* C23: a loadMoreTours call that fails on a network failure or on a status
\* of 500 or above has made 4 fetches, each but the last one retried after
\* the delays 1000, 2000, 4000 ms.
C23_PageFetchRetried ==
    (apiPc = "done" /\ ~apiResult.ok /\ Retryable(Last(attempts)))
        => /\ Len(attempts) = MAX_RETRIES + 1
           /\ waited = RETRY_DELAYS

\* what TourList renders under the cards
ListFooter(tours, loadingMore, more) ==
    IF Len(tours) = 0 THEN "empty state"
    ELSE IF loadingMore THEN "loading more"
    ELSE IF ~more THEN "all loaded"
    ELSE "nothing"

\* C24: after a page fetch failed, what the session shows is not what it
\* shows when it ran out of pages.
C24_FailureToldFromExhaustion ==
    [][caught' # caught => ListFooter(allTours', isLoadingMore', hasMore') # "all loaded"]_vars

\* ------------------------------------------------------------------------
\* Properties: the camera and the callouts
\* ------------------------------------------------------------------------

\* the step moved the camera to fit the markers
Refitted(made) == \E i \in 1..Len(made) : made[i].op = "fitBounds"

\* C25: once the map is shown, the step that appends a page of the session
\* to the list makes no fitBounds call: the camera stays where it was.
C25_NoRefitOnAppend ==
    [][(mapInstance /\ PageMerged) => ~Refitted(mapCalls')]_vars

\* C26: when the hover is cleared over a list whose tours all have
\* coordinates, the callouts left open are the selected tour's at most: none
\* when nothing is selected.
C26_HoverClearLeavesSelection ==
    [][(HandleTourHover(NoId) /\ \A i \in 1..Len(allTours) : HasCoords(allTours[i])) =>
            OpenCallouts(infoWindowsRef') \subseteq
                (IF selectedContentId = NoId THEN {} ELSE {selectedContentId})]_vars

\* C27: the centre a map is created with lies in the box 32.5..43.5 by
\* 123.5..132.5, and over a list without any coordinates no map is created.
C27_CameraCenterInBox ==
    /\ \A i \in 1..Len(mapCalls) :
            mapCalls[i].op = "Map"
                => /\ ~mapCalls[i].position.isNull
                   /\ InBox(mapCalls[i].position.lat, mapCalls[i].position.lng)
    /\ (\A i \in 1..Len(allTours) : ~HasCoords(allTours[i])) => (~mapInstance /\ mapCalls = <<>>)

\* C27 witness: the map was created over the tours 2 and 3, centred on the
\* mean of their positions, 37.0 and 127.2
C27_Witness ==
    /\ allTours = <<1, 2, 3>>
    /\ markersRef = <<2, 3>>
    /\ mapCalls = << MapCall("Map", GeoPoint(Tenths(1272), Tenths(370))),
                     MapCall("fitBounds", NullPoint) >>

\* ------------------------------------------------------------------------
\* Properties of the statistics
\* ------------------------------------------------------------------------

\* the requests that were started
Started == { r \in StatsRequests : statsPromises[r].state # "not created" }

\* C28: when the list of area codes was obtained, getStatsSummary settles
\* only after every request has settled, it returns a summary, and the
\* summary holds the entries of the count requests that succeeded: a failed
\* request aborts nothing.
C28_AggregateToleratesFailures ==
    (Settled(summaryPromise) /\ statsPromises[AreaCodeRequest].state = "fulfilled")
        => /\ \A r \in StatsRequests : Settled(statsPromises[r])
           /\ summaryPromise.state = "fulfilled"
           /\ summaryPromise.value.topRegions =
                    Top3(SortByCount(Collected(statsPromises, "region", AreaCodes)))
           /\ summaryPromise.value.topTypes =
                    Top3(SortByCount(Collected(statsPromises, "type", ContentTypeIds)))

\* ------------------------------------------------------------------------
\* Properties of the error display
\* ------------------------------------------------------------------------

\* a network failure, or an HTTP 5xx
TransportFailure(cause) ==
    \/ cause.kind = "network"
    \/ cause.kind = "http" /\ cause.status >= 500

\* an error envelope whose resultCode is the upstream's rate limit
TransientEnvelope(cause) ==
    /\ cause.kind = "http"
    /\ ResponseOk(cause)
    /\ cause.resultCode = "22"

\* C29: when the error display offers the retry action, the request ended
\* with a network failure, an HTTP 5xx, or an error envelope whose code is
\* a transient upstream condition; it is not offered for an argument check
\* that threw, for an HTTP 4xx, nor for any other envelope code, whatever
\* the message of the error says
C29_RetryOnlyForTransient ==
    (errorPc = "displayed" /\ canRetry)
        => TransportFailure(pageError.cause) \/ TransientEnvelope(pageError.cause)

\* ------------------------------------------------------------------------
\* Properties: liveness of the pagination session
\* ------------------------------------------------------------------------

\* C30: when every loadMoreTours call eventually settles, a handleLoadMore
\* that set isLoadingMore is followed by a state in which isLoadingMore is
\* cleared again: the session never stays in the loading-more state
C30_LoadingMoreLeft == isLoadingMore ~> ~isLoadingMore

\* a loadMoreTours call was made and rejected, and handleLoadMore has left
\* the loading-more state
C30_Witness ==
    /\ calls > 0
    /\ caught.call # 0
    /\ pending = {}
    /\ ~isLoadingMore

====
